---- MODULE Spec2Model ----
(***************************************************************************)
(* Model of expense_tracker.py: a Streamlit dashboard that loads a         *)
(* Splitwise CSV export into a pandas DataFrame, aggregates it per day,    *)
(* per month and per category for a selected person, and renders metrics   *)
(* and charts.                                                             *)
(*                                                                         *)
(* Representation.                                                         *)
(*   - A cell is NaN (missing) or Val(x).  Text is a sequence of code      *)
(*     points, a Timestamp is <<year, month, day>>, an amount is an        *)
(*     integer number of cents (float rounding is not modelled), a mean    *)
(*     or a percentage is an exact fraction [num, den]; den = 0 stands     *)
(*     for the float infinities.                                           *)
(*   - A DataFrame is [columns, index, data]: the column labels, the row   *)
(*     labels and one function column -> cell per row.                     *)
(*   - uploaded_file is NaN while nothing is uploaded and Val(file) after,  *)
(*     file being the sequence of records pd.read_csv finds in it.         *)
(*   - Text columns are object columns (the file holds text in them), so   *)
(*     the .str accessor is defined on them.                               *)
(***************************************************************************)
EXTENDS Integers, Sequences, FiniteSets, TLC

VARIABLES uploaded_file, df, selected_person, view_mode, selection, shown, result

vars == <<uploaded_file, df, selected_person, view_mode, selection, shown, result>>

-----------------------------------------------------------------------------
(* Cells                                                                   *)

NaN == [na |-> TRUE]

Val(x) == [na |-> FALSE, v |-> x]

IsNa(c) == c.na

Abs(n) == IF n < 0 THEN -n ELSE n

RECURSIVE Gcd(_, _)
Gcd(a, b) == IF b = 0 THEN a ELSE Gcd(b, a % b)

\* The float a / b as an exact fraction in lowest terms; x/0 is +-inf (den = 0)
\* and 0/0 is NaN.
Frac(a, b) ==
    IF b = 0
    THEN IF a = 0 THEN NaN ELSE Val([num |-> IF a > 0 THEN 1 ELSE -1, den |-> 0])
    ELSE LET g == Gcd(Abs(a), Abs(b))
             s == IF b < 0 THEN -1 ELSE 1
         IN  Val([num |-> (s * a) \div g, den |-> (s * b) \div g])

Zero == Val([num |-> 0, den |-> 1])

-----------------------------------------------------------------------------
(* Text                                                                    *)

\* str.lower on one code point (ASCII letters).
LowerChar(c) == IF c >= 65 /\ c <= 90 THEN c + 32 ELSE c

Lower(s) == [i \in 1..Len(s) |-> LowerChar(s[i])]

\* re.search of a literal pattern: pat occurs somewhere in s.
Search(pat, s) ==
    \E i \in 1..(Len(s) - Len(pat) + 1) : SubSeq(s, i, i + Len(pat) - 1) = pat

IsSpace(c) == c \in {9, 10, 11, 12, 13, 32}

RECURSIVE LStrip(_)
LStrip(s) == IF s # <<>> /\ IsSpace(Head(s)) THEN LStrip(Tail(s)) ELSE s

RECURSIVE RStrip(_)
RStrip(s) ==
    IF s # <<>> /\ IsSpace(s[Len(s)]) THEN RStrip(SubSeq(s, 1, Len(s) - 1)) ELSE s

\* No strip at all: the text as it is.
StripNothing(s) == s

\* str.strip
Strip(s) == RStrip(LStrip(s))

\* Python's < on str: lexicographic on code points.
RECURSIVE StrLess(_, _)
StrLess(a, b) ==
    IF b = <<>> THEN FALSE
    ELSE IF a = <<>> THEN TRUE
    ELSE IF Head(a) # Head(b) THEN Head(a) < Head(b)
    ELSE StrLess(Tail(a), Tail(b))

Digit(n) == 48 + n

DigitVal(c) == c - 48

\* Timestamp parsing of an ISO 'YYYY-MM-DD' cell.
ParseDate(s) ==
    << 1000 * DigitVal(s[1]) + 100 * DigitVal(s[2]) + 10 * DigitVal(s[3]) + DigitVal(s[4]),
       10 * DigitVal(s[6]) + DigitVal(s[7]),
       10 * DigitVal(s[9]) + DigitVal(s[10]) >>

\* Timestamp.strftime('%Y-%m')
StrfYm(t) ==
    << Digit(t[1] \div 1000), Digit((t[1] \div 100) % 10), Digit((t[1] \div 10) % 10),
       Digit(t[1] % 10), 45, Digit(t[2] \div 10), Digit(t[2] % 10) >>

\* Timestamp.strftime('%Y-%m-%d'), the text a date has in the file.
StrfYmd(t) == StrfYm(t) \o << 45, Digit(t[3] \div 10), Digit(t[3] % 10) >>

\* < on Timestamps.
TsLess(a, b) ==
    \/ a[1] < b[1]
    \/ a[1] = b[1] /\ a[2] < b[2]
    \/ a[1] = b[1] /\ a[2] = b[2] /\ a[3] < b[3]

-----------------------------------------------------------------------------
(* DataFrame helpers                                                       *)

PersonA == "Alysson"

PersonB == "Bruce Cheng"

Persons == <<PersonB, PersonA>>

CsvColumns == <<"Date", "Description", "Category", PersonA, PersonB>>

Range(s) == {s[i] : i \in 1..Len(s)}

\* No frame loaded, no function applied, nothing rendered.
NoFrame == [columns |-> <<>>, index |-> <<>>, data |-> <<>>]

NoResult == [op |-> "none"]

NoRender == [kind |-> "none"]

\* Positions of a frame's rows.
Pos(f) == 1..Len(f.data)

\* df[mask]: the rows whose mask is true, labels and order kept.
RECURSIVE Take(_, _)
Take(s, mask) ==
    IF s = <<>> THEN <<>>
    ELSE (IF Head(mask) THEN <<Head(s)>> ELSE <<>>) \o Take(Tail(s), Tail(mask))

BoolIndex(f, mask) ==
    [columns |-> f.columns, index |-> Take(f.index, mask), data |-> Take(f.data, mask)]

\* df[col] = series: replaces the column, or appends it when it is new.
SetColumn(f, col, series) ==
    [columns |-> IF col \in Range(f.columns) THEN f.columns ELSE Append(f.columns, col),
     index   |-> f.index,
     data    |-> [i \in Pos(f) |->
                    [c \in Range(f.columns) \cup {col} |->
                        IF c = col THEN series[i] ELSE f.data[i][c]]]]

Column(f, col) == [i \in Pos(f) |-> f.data[i][col]]

\* pd.read_csv: a RangeIndex from 0 over the file's records.
read_csv(file) ==
    [columns |-> CsvColumns, index |-> [i \in 1..Len(file) |-> i - 1], data |-> file]

\* str.contains without case=False: the pattern is matched as written.
str_contains_cased(series, pat) ==
    [i \in 1..Len(series) |->
        IF IsNa(series[i]) THEN FALSE ELSE Search(pat, series[i].v)]

\* Series.str.contains(pat, case=False, na=False)
str_contains(series, pat) ==
    [i \in 1..Len(series) |->
        IF IsNa(series[i]) THEN FALSE ELSE Search(Lower(pat), Lower(series[i].v))]

\* pd.to_datetime on a column of ISO dates; a blank cell becomes NaT.
to_datetime(series) ==
    [i \in 1..Len(series) |->
        IF IsNa(series[i]) THEN NaN ELSE Val(ParseDate(series[i].v))]

\* Series.abs
series_abs(series) ==
    [i \in 1..Len(series) |->
        IF IsNa(series[i]) THEN NaN ELSE Val(Abs(series[i].v))]

Not(mask) == [i \in 1..Len(mask) |-> ~mask[i]]

STR_paid == <<112, 97, 105, 100>>

numeric_columns == <<PersonA, PersonB>>

RECURSIVE AbsColumns(_, _)
AbsColumns(f, cols) ==
    IF cols = <<>> THEN f
    ELSE AbsColumns(SetColumn(f, Head(cols), series_abs(Column(f, Head(cols)))), Tail(cols))

\* df[~df['Description'].str.contains('paid', case=False, na=False)]
drop_paid(d) == BoolIndex(d, Not(str_contains(Column(d, "Description"), STR_paid)))

\* df['Date'] = pd.to_datetime(df['Date'])
parse_dates(d) == SetColumn(d, "Date", to_datetime(Column(d, "Date")))

load_data(file) == AbsColumns(parse_dates(drop_paid(read_csv(file))), numeric_columns)

-----------------------------------------------------------------------------
(* groupby                                                                 *)

\* < on group keys: Timestamps for a Date key, str for a text key.
KeyLess(dtype, a, b) == IF dtype = "datetime64" THEN TsLess(a, b) ELSE StrLess(a, b)

\* sorted(S): the elements of S in ascending order; the i-th has i-1
\* smaller elements.
Sorted(S, dtype) ==
    [i \in 1..Cardinality(S) |->
        CHOOSE x \in S : Cardinality({y \in S : KeyLess(dtype, y, x)}) = i - 1]

\* The group keys of groupby(keys): the distinct non-missing key values
\* (dropna=True), sorted (sort=True).
GroupKeys(keys, dtype) ==
    Sorted({keys[i].v : i \in {j \in 1..Len(keys) : ~IsNa(keys[j])}}, dtype)

\* The cells of a series at the rows whose key is k, in row order.
RECURSIVE GroupCells(_, _, _)
GroupCells(keys, series, k) ==
    IF keys = <<>> THEN <<>>
    ELSE (IF ~IsNa(Head(keys)) /\ Head(keys).v = k THEN <<Head(series)>> ELSE <<>>)
         \o GroupCells(Tail(keys), Tail(series), k)

\* sum with skipna: missing cells add nothing, an empty sum is 0.
RECURSIVE agg_sum(_)
agg_sum(cells) ==
    IF cells = <<>> THEN 0
    ELSE (IF IsNa(Head(cells)) THEN 0 ELSE Head(cells).v) + agg_sum(Tail(cells))

\* size instead of count: missing cells are counted too.
agg_count_size(cells) == Len(cells)

\* count: the number of non-missing cells.
RECURSIVE agg_count(_)
agg_count(cells) ==
    IF cells = <<>> THEN 0
    ELSE (IF IsNa(Head(cells)) THEN 0 ELSE 1) + agg_count(Tail(cells))

\* mean with skipna: NaN when no cell is present.
agg_mean(cells) ==
    IF agg_count(cells) = 0 THEN NaN ELSE Frac(agg_sum(cells), agg_count(cells))

RangeIndex(n) == [i \in 1..n |-> i - 1]

\* One [key, cells] per group key, in key order.
Groups(keys, groups, values) ==
    [g \in 1..Len(groups) |->
        [key |-> groups[g], cells |-> GroupCells(keys, values, groups[g])]]

\* groupby(keys)[values]
groupby(keys, dtype, values) == Groups(keys, GroupKeys(keys, dtype), values)

-----------------------------------------------------------------------------
(* process_daily_data                                                      *)

\* .sum().reset_index() with columns ['Date', 'Total']
daily_totals(groups) ==
    [columns |-> <<"Date", "Total">>,
     index   |-> RangeIndex(Len(groups)),
     data    |-> [g \in 1..Len(groups) |->
                    [Date  |-> Val(groups[g].key),
                     Total |-> Val(agg_sum(groups[g].cells))]]]

\* A daily aggregation that sums the first amount column whoever is selected.
process_daily_data_fixed_column(f, person) ==
    daily_totals(groupby(Column(f, "Date"), "datetime64", Column(f, PersonA)))

process_daily_data(f, person) ==
    daily_totals(groupby(Column(f, "Date"), "datetime64", Column(f, person)))

-----------------------------------------------------------------------------
(* process_monthly_data                                                    *)

\* A strftime that renders NaT as the text 'NaT' instead of a missing value.
dt_strftime_Ym_nat(series) ==
    [i \in 1..Len(series) |->
        IF IsNa(series[i]) THEN Val(<<78, 97, 84>>) ELSE Val(StrfYm(series[i].v))]

\* Series.dt.strftime('%Y-%m'); NaT gives a missing value.
dt_strftime_Ym(series) ==
    [i \in 1..Len(series) |->
        IF IsNa(series[i]) THEN NaN ELSE Val(StrfYm(series[i].v))]

\* A shift by calendar position that is no shift at all: each row is its own
\* predecessor.
shift0(series) == series

\* Series.shift(1)
shift1(series) == [i \in 1..Len(series) |-> IF i = 1 THEN NaN ELSE series[i - 1]]

\* a - b on float cells.
CellSub(a, b) == IF IsNa(a) \/ IsNa(b) THEN NaN ELSE Val(a.v - b.v)

\* (a / b * 100) on float cells.
CellPct(a, b) == IF IsNa(a) \/ IsNa(b) THEN NaN ELSE Frac(a.v * 100, b.v)

fillna0(c) == IF IsNa(c) THEN Zero ELSE c

\* .agg(['sum', 'mean', 'count']).reset_index() with columns
\* ['Month', 'Total', 'Average', 'Transactions']
monthly_totals(groups) ==
    [columns |-> <<"Month", "Total", "Average", "Transactions">>,
     index   |-> RangeIndex(Len(groups)),
     data    |-> [g \in 1..Len(groups) |->
                    [Month        |-> Val(groups[g].key),
                     Total        |-> Val(agg_sum(groups[g].cells)),
                     Average      |-> agg_mean(groups[g].cells),
                     Transactions |-> Val(agg_count(groups[g].cells))]]]

\* The three month-over-month columns, given the shifted totals.
add_changes(m, previous) ==
    [columns |-> m.columns \o <<"Previous_Month_Total", "Change", "Change_Percentage">>,
     index   |-> m.index,
     data    |-> [g \in Pos(m) |->
                    [Month                |-> m.data[g].Month,
                     Total                |-> m.data[g].Total,
                     Average              |-> m.data[g].Average,
                     Transactions         |-> m.data[g].Transactions,
                     Previous_Month_Total |-> previous[g],
                     Change               |-> CellSub(m.data[g].Total, previous[g]),
                     Change_Percentage    |->
                        fillna0(CellPct(CellSub(m.data[g].Total, previous[g]), previous[g]))]]]

month_over_month(m) == add_changes(m, shift1(Column(m, "Total")))

process_monthly_data(f, person) ==
    month_over_month(monthly_totals(
        groupby(dt_strftime_Ym(Column(f, "Date")), "object", Column(f, person))))

\* daily_data['Total'].sum() and monthly_data['Total'].sum(): the value of
\* the 'Total Expenses' metric.
total_expenses(data) == agg_sum(Column(data, "Total"))

-----------------------------------------------------------------------------
(* get_category_data                                                       *)

\* series == value, elementwise; a missing cell equals nothing.
series_eq(series, value) ==
    [i \in 1..Len(series) |-> ~IsNa(series[i]) /\ series[i].v = value]

\* The caller's frame after the call: the monthly branch assigns df['Month'].
get_category_data_df(f, person, selected_date, is_monthly) ==
    IF is_monthly
    THEN SetColumn(f, "Month", dt_strftime_Ym(Column(f, "Date")))
    ELSE f

\* df_filtered.  selected_date is a cell; a missing one stands for None.
df_filtered(f1, selected_date, is_monthly) ==
    IF IsNa(selected_date) THEN f1
    ELSE IF is_monthly
         THEN BoolIndex(f1, series_eq(Column(f1, "Month"), selected_date.v))
         ELSE BoolIndex(f1, series_eq(Column(f1, "Date"), selected_date.v))

\* .sum().reset_index() with columns ['Category', 'Total']
category_sums(groups) ==
    [columns |-> <<"Category", "Total">>,
     index   |-> RangeIndex(Len(groups)),
     data    |-> [g \in 1..Len(groups) |->
                    [Category |-> Val(groups[g].key),
                     Total    |-> Val(agg_sum(groups[g].cells))]]]

\* category_totals[category_totals['Category'].str.strip() != '']
drop_blank(totals) ==
    BoolIndex(totals, [g \in Pos(totals) |-> Strip(totals.data[g].Category.v) # <<>>])

category_totals(filtered, person) ==
    drop_blank(category_sums(
        groupby(Column(filtered, "Category"), "object", Column(filtered, person))))

\* The returned category_totals.
get_category_data(f, person, selected_date, is_monthly) ==
    category_totals(
        df_filtered(get_category_data_df(f, person, selected_date, is_monthly),
                    selected_date, is_monthly),
        person)

-----------------------------------------------------------------------------
(* main                                                                    *)

DAILY == "Daily Expenses"

MONTHLY == "Monthly Summary"

Views == <<DAILY, MONTHLY>>

\* Series.mean of a frame's Total column.
total_mean(data) == agg_mean(Column(data, "Total"))

\* Series.max / Series.min of a non-empty Date column.
date_max(data) ==
    CHOOSE t \in {data.data[k].Date.v : k \in Pos(data)} :
        \A k \in Pos(data) : ~TsLess(t, data.data[k].Date.v)

date_min(data) ==
    CHOOSE t \in {data.data[k].Date.v : k \in Pos(data)} :
        \A k \in Pos(data) : ~TsLess(data.data[k].Date.v, t)

\* The selectbox default index=0 instead of the last option.
default_month_first(options) == options[1]

\* The month selectbox's default: index=len(monthly_data['Month'])-1.
default_month(options) == options[Len(options)]

\* What one run shows after an exception stopped it: the selectors and the
\* traceback.
ErrorPage(person, view) == [kind |-> "error", person |-> person, view |-> view]

\* The category breakdown of the daily view: pie chart and details table,
\* or the message 'No expenses for the selected date.'
daily_breakdown(category_data) ==
    IF Len(category_data.data) # 0 THEN <<"pie", "table">> ELSE <<"info">>

daily_page(person, daily_data, selected_date, category_data) ==
    [kind           |-> "daily",
     person         |-> person,
     total_expenses |-> total_expenses(daily_data),
     average        |-> total_mean(daily_data),
     chart          |-> daily_data,
     min_value      |-> date_min(daily_data),
     max_value      |-> date_max(daily_data),
     selected       |-> selected_date,
     category_data  |-> category_data,
     breakdown      |-> daily_breakdown(category_data)]

\* The run from the date input on.
daily_category(f, person, daily_data, selected_date) ==
    [df    |-> get_category_data_df(f, person, selected_date, FALSE),
     shown |-> daily_page(person, daily_data, selected_date,
                          get_category_data(f, person, selected_date, FALSE))]

\* The date input: the picked date, or value=daily_data['Date'].max().
\* With no dated row value, min_value and max_value are NaT and
\* st.date_input raises.
daily_metrics(f, person, picked, daily_data) ==
    IF Len(daily_data.data) = 0
    THEN [df |-> f, shown |-> ErrorPage(person, DAILY)]
    ELSE daily_category(f, person, daily_data,
                        IF IsNa(picked) THEN Val(date_max(daily_data)) ELSE picked)

\* The Daily Expenses branch.  picked is the date the user picked in the
\* date input, NaN while the input is at its default value.
daily_view(f, person, picked) ==
    daily_metrics(f, person, picked, process_daily_data(f, person))

month_options(monthly_data) == [k \in Pos(monthly_data) |-> monthly_data.data[k].Month.v]

\* The monthly view draws the pie chart and the details table whatever
\* category_data holds.
monthly_page(person, monthly_data, selected_month, category_data) ==
    [kind              |-> "monthly",
     person            |-> person,
     total_expenses    |-> total_expenses(monthly_data),
     average           |-> total_mean(monthly_data),
     last_month_change |-> monthly_data.data[Len(monthly_data.data)].Change_Percentage,
     chart             |-> monthly_data,
     options           |-> month_options(monthly_data),
     selected          |-> selected_month,
     category_data     |-> category_data,
     breakdown         |-> <<"pie", "table">>]

\* The run from the month selectbox on.
monthly_category(f, person, monthly_data, selected_month) ==
    [df    |-> get_category_data_df(f, person, selected_month, TRUE),
     shown |-> monthly_page(person, monthly_data, selected_month,
                            get_category_data(f, person, selected_month, TRUE))]

\* The month selectbox: the picked month, or the default option.  With no
\* month monthly_data['Change_Percentage'].iloc[-1] raises IndexError.
monthly_metrics(f, person, picked, monthly_data) ==
    IF Len(monthly_data.data) = 0
    THEN [df |-> f, shown |-> ErrorPage(person, MONTHLY)]
    ELSE monthly_category(f, person, monthly_data,
                          IF IsNa(picked)
                          THEN Val(default_month(month_options(monthly_data)))
                          ELSE picked)

\* The Monthly Summary branch.  picked is the month the user picked in the
\* selectbox, NaN while the selectbox is at its default option.
monthly_view(f, person, picked) ==
    monthly_metrics(f, person, picked, process_monthly_data(f, person))

\* One run of main(): nothing is shown below the uploader until a file is
\* uploaded.
main(file, person, view, picked) ==
    IF IsNa(file)
    THEN [df |-> NoFrame, shown |-> NoRender]
    ELSE IF view = DAILY
         THEN daily_view(load_data(file.v), person, picked)
         ELSE monthly_view(load_data(file.v), person, picked)

\* A run that reuses the aggregates memoised for the view by the previous
\* run, whoever they were computed for.
rerun_memo(previous, file, person, view, picked) ==
    IF previous.shown.kind \in {"daily", "monthly"}
       /\ previous.shown.kind = (IF view = DAILY THEN "daily" ELSE "monthly")
    THEN main(file, previous.shown.person, view, picked)
    ELSE main(file, person, view, picked)

\* Streamlit runs the script, and with it main(), from the top on every
\* widget event; main() takes no argument and keeps nothing in the session,
\* so the frame and the page of the previous run are not read.
rerun(previous, file, person, view, picked) == main(file, person, view, picked)

-----------------------------------------------------------------------------
(* Input domains                                                           *)

\* The most records in a file given to load_data.
MaxLoadRows == 2

\* The most records in a file given to the date aggregations.
MaxAggRows == 3

\* The most records in a file given to the category breakdown.
MaxCatRows == 2

\* The most records in a file uploaded to the dashboard.
MaxAppRows == 2

T1 == <<2023, 11, 20>>

T2 == <<2024, 1, 5>>

T3 == <<2024, 1, 9>>

\* A calendar day between T1 and T2 on which no record falls.
TGap == <<2023, 12, 25>>

STR_F == <<70>>

STR_R == <<82>>

STR_blank == <<32>>

STR_Lunch == <<76, 117, 110, 99, 104>>

STR_PaiD == <<80, 97, 105, 68>>

STR_rePAId == <<114, 101, 80, 65, 73, 100>>

STR_pad == <<112, 97, 100>>

STR_pai == <<112, 97, 105>>

Record(date, description, category, a, b) ==
    [c \in Range(CsvColumns) |->
        CASE c = "Date"        -> date
          [] c = "Description" -> description
          [] c = "Category"    -> category
          [] c = PersonA       -> a
          [] c = PersonB       -> b]

\* The files of at most n records drawn from a set of records.
FilesOf(records, n) == UNION {[1..k -> records] : k \in 0..n}

\* Files for load_data: every kind of Description, signed and missing amounts.
LoadRecords ==
    {Record(Val(StrfYmd(T1)), d, Val(STR_F), a, b) :
        d \in {NaN, Val(STR_Lunch), Val(STR_PaiD), Val(STR_rePAId), Val(STR_pad), Val(STR_pai)},
        a \in {NaN, Val(-2), Val(0), Val(3)},
        b \in {Val(-1), Val(4)}}

\* Files for the date aggregations: blank and repeated dates, two months
\* with a gap between them, missing amounts (a month of them totals zero).
AggRecords ==
    {Record(d, Val(STR_Lunch), Val(STR_F), a, b) :
        d \in {NaN, Val(StrfYmd(T1)), Val(StrfYmd(T2)), Val(StrfYmd(T3))},
        a \in {NaN, Val(2), Val(-5)},
        b \in {Val(1)}}

-----------------------------------------------------------------------------
(* load_data applied to an uploaded file                                   *)

Idle ==
    /\ selected_person = PersonB
    /\ view_mode = DAILY
    /\ selection = NaN
    /\ shown = NoRender

InitLoad ==
    /\ uploaded_file \in {Val(file) : file \in FilesOf(LoadRecords, MaxLoadRows)}
    /\ df = NoFrame
    /\ result = NoResult
    /\ Idle

LoadData ==
    /\ result.op = "none"
    /\ df' = load_data(uploaded_file.v)
    /\ result' = [op |-> "load_data"]
    /\ UNCHANGED <<uploaded_file, selected_person, view_mode, selection, shown>>

NextLoad == LoadData

SpecLoad == InitLoad /\ [][NextLoad]_vars

-----------------------------------------------------------------------------
(* The date aggregations applied to a loaded frame                         *)

InitAgg ==
    /\ uploaded_file \in {Val(file) : file \in FilesOf(AggRecords, MaxAggRows)}
    /\ df = load_data(uploaded_file.v)
    /\ result = NoResult
    /\ Idle

ProcessDaily(person) ==
    /\ result.op = "none"
    /\ result' = [op |-> "process_daily_data", person |-> person,
                  out |-> process_daily_data(df, person)]
    /\ UNCHANGED <<uploaded_file, df, selected_person, view_mode, selection, shown>>

ProcessMonthly(person) ==
    /\ result.op = "none"
    /\ result' = [op |-> "process_monthly_data", person |-> person,
                  out |-> process_monthly_data(df, person)]
    /\ UNCHANGED <<uploaded_file, df, selected_person, view_mode, selection, shown>>

NextAgg ==
    \/ \E person \in Range(Persons) : ProcessDaily(person)
    \/ \E person \in Range(Persons) : ProcessMonthly(person)

SpecAgg == InitAgg /\ [][NextAgg]_vars

-----------------------------------------------------------------------------
(* The operations of one render applied to a loaded frame                  *)

\* Files for the category breakdown: missing, blank and two named
\* categories, on two days of one month and one day of another.
CatRecords ==
    {Record(Val(StrfYmd(d)), Val(STR_Lunch), c, ab[1], ab[2]) :
        d \in {T1, T2, T3},
        c \in {NaN, Val(STR_blank), Val(STR_F), Val(STR_R)},
        ab \in {<<Val(2), Val(1)>>, <<NaN, Val(3)>>}}

\* The dates and the months a breakdown is asked for.
CatDays == {T1, TGap, T2, T3}

CatMonths == {StrfYm(t) : t \in CatDays}

InitCat ==
    /\ uploaded_file \in {Val(file) : file \in FilesOf(CatRecords, MaxCatRows)}
    /\ df = load_data(uploaded_file.v)
    /\ result = NoResult
    /\ Idle

GetCategory(person, selected_date, is_monthly) ==
    /\ result.op = "none"
    /\ result' = [op |-> "get_category_data", person |-> person,
                  selected_date |-> selected_date, is_monthly |-> is_monthly,
                  out |-> get_category_data(df, person, selected_date, is_monthly)]
    /\ df' = get_category_data_df(df, person, selected_date, is_monthly)
    /\ UNCHANGED <<uploaded_file, selected_person, view_mode, selection, shown>>

NextCat ==
    \/ \E person \in Range(Persons) : ProcessDaily(person)
    \/ \E person \in Range(Persons) : ProcessMonthly(person)
    \/ \E person \in Range(Persons), t \in CatDays : GetCategory(person, Val(t), FALSE)
    \/ \E person \in Range(Persons), m \in CatMonths : GetCategory(person, Val(m), TRUE)

SpecCat == InitCat /\ [][NextCat]_vars

-----------------------------------------------------------------------------
(* The dashboard                                                           *)

\* Files uploaded to the dashboard: expense rows in two months with a
\* blank or a named category and a missing amount; a row without a
\* Category, which every breakdown drops; a settlement ('paid') row, which
\* load_data drops; and a row without a Date, which every aggregation drops.
AppRecords ==
    {Record(Val(StrfYmd(d)), Val(STR_Lunch), c, ab[1], ab[2]) :
        d \in {T1, T2},
        c \in {Val(STR_blank), Val(STR_F)},
        ab \in {<<Val(2), Val(1)>>, <<NaN, Val(3)>>}}
    \cup {Record(Val(StrfYmd(T1)), Val(STR_Lunch), NaN, Val(2), Val(1)),
          Record(Val(StrfYmd(T2)), Val(STR_PaiD), Val(STR_F), Val(2), Val(1)),
          Record(NaN, Val(STR_Lunch), Val(STR_F), Val(2), Val(1))}

\* The days the date input's calendar offers in the model.
CalendarDays == {T1, TGap, T2}

Init ==
    /\ uploaded_file = NaN
    /\ df = NoFrame
    /\ selected_person = Persons[1]
    /\ view_mode = Views[1]
    /\ selection = NaN
    /\ shown = NoRender
    /\ result = NoResult

\* The script run that follows a widget event.
Run(file, person, view, picked) ==
    LET r == rerun([df |-> df, shown |-> shown], file, person, view, picked)
    IN  /\ uploaded_file' = file
        /\ selected_person' = person
        /\ view_mode' = view
        /\ selection' = picked
        /\ df' = r.df
        /\ shown' = r.shown
        /\ UNCHANGED result

\* The user uploads a file; the selectors appear with their first options.
Upload(file) ==
    /\ IsNa(uploaded_file)
    /\ Run(Val(file), Persons[1], Views[1], NaN)

\* The user removes the file; the selectors go and lose their state.
Clear ==
    /\ ~IsNa(uploaded_file)
    /\ Run(NaN, Persons[1], Views[1], NaN)

\* The user selects the other person; the date or month picked stays.
SelectPerson(person) ==
    /\ ~IsNa(uploaded_file)
    /\ person # selected_person
    /\ Run(uploaded_file, person, view_mode, selection)

\* The user selects the other view; its date or month widget is new.
SelectView(view) ==
    /\ ~IsNa(uploaded_file)
    /\ view # view_mode
    /\ Run(uploaded_file, selected_person, view, NaN)

\* The user picks a date between min_value and max_value.
SelectDate(t) ==
    /\ shown.kind = "daily"
    /\ ~TsLess(t, shown.min_value)
    /\ ~TsLess(shown.max_value, t)
    /\ Run(uploaded_file, selected_person, view_mode, Val(t))

\* The user picks one of the selectbox's months.
SelectMonth(m) ==
    /\ shown.kind = "monthly"
    /\ m \in Range(shown.options)
    /\ Run(uploaded_file, selected_person, view_mode, Val(m))

Next ==
    \/ IsNa(uploaded_file) /\ \E file \in FilesOf(AppRecords, MaxAppRows) : Upload(file)
    \/ Clear
    \/ \E person \in Range(Persons) : SelectPerson(person)
    \/ \E view \in Range(Views) : SelectView(view)
    \/ \E t \in CalendarDays : SelectDate(t)
    \/ \E t \in CalendarDays : SelectMonth(StrfYm(t))

Spec == Init /\ [][Next]_vars

-----------------------------------------------------------------------------
(* Reference definitions used by the properties                            *)

\* The sum of w over the set S.
RECURSIVE SumSet(_, _)
SumSet(S, w) ==
    IF S = {} THEN 0
    ELSE LET x == CHOOSE y \in S : TRUE IN w[x] + SumSet(S \ {x}, w)

\* The person's amount in each row of a frame, a missing one counting 0.
Amount0(f, person) ==
    [i \in Pos(f) |-> IF IsNa(f.data[i][person]) THEN 0 ELSE f.data[i][person].v]

\* The rows of a frame with a valid Date.
Dated(f) == {i \in Pos(f) : ~IsNa(f.data[i]["Date"])}

DateOf(f, i) == f.data[i]["Date"].v

\* Days and months on a linear scale.
DayNo(t) == (t[1] * 12 + t[2]) * 31 + t[3]

MonthNo(ym) == ym[1] * 12 + ym[2]

YmOf(t) == <<t[1], t[2]>>

\* The year and month a 'YYYY-MM' text denotes.
ReadYm(s) ==
    << 1000 * (s[1] - 48) + 100 * (s[2] - 48) + 10 * (s[3] - 48) + (s[4] - 48),
       10 * (s[6] - 48) + (s[7] - 48) >>

IsYmText(s) == Len(s) = 7 /\ s[5] = 45

\* A Description holding 'paid' in any letter case.
HasPaid(cell) ==
    /\ ~IsNa(cell)
    /\ \E i \in 1..(Len(cell.v) - 3) :
          /\ cell.v[i] \in {112, 80}
          /\ cell.v[i + 1] \in {97, 65}
          /\ cell.v[i + 2] \in {105, 73}
          /\ cell.v[i + 3] \in {100, 68}

Magnitude(n) == IF n >= 0 THEN n ELSE 0 - n

-----------------------------------------------------------------------------
(* C3                                                                      *)

-----------------------------------------------------------------------------
(* C4                                                                      *)

\* C4: process_daily_data returns exactly one row per distinct Date present
\* in the data, in ascending date order, whose Total is the sum of the
\* selected person's amounts over all rows with that Date.
C4_DailyOneRowPerDateWithSum ==
    result.op = "process_daily_data" =>
        LET out   == result.out
            n     == Len(out.data)
            dates == {DateOf(df, i) : i \in Dated(df)}
        IN  /\ n = Cardinality(dates)
            /\ {out.data[k].Date.v : k \in 1..n} = dates
            /\ \A k \in 1..(n - 1) : DayNo(out.data[k].Date.v) < DayNo(out.data[k + 1].Date.v)
            /\ \A k \in 1..n :
                  out.data[k].Total =
                      Val(SumSet({i \in Dated(df) : DateOf(df, i) = out.data[k].Date.v},
                                 Amount0(df, result.person)))

\* A daily aggregation that had to reorder the dates and to add two amounts.
C4_Witness ==
    /\ result.op = "process_daily_data"
    /\ Len(result.out.data) = 2
    /\ Len(df.data) = 3
    /\ ~IsNa(df.data[1]["Date"])
    /\ DateOf(df, 1) = T3
    /\ result.out.data[1].Date.v = T1
    /\ result.out.data[2].Total = Val(7)

-----------------------------------------------------------------------------
(* C5                                                                      *)

\* The rows of a frame that fall in the month ym.
InMonth(f, ym) == {i \in Dated(f) : YmOf(DateOf(f, i)) = ym}

\* The rows, their order, the totals and the counts of a monthly result.
MonthlyRowsTotalsCounts(f, person, out) ==
    LET n      == Len(out.data)
        months == {YmOf(DateOf(f, i)) : i \in Dated(f)}
    IN  /\ n = Cardinality(months)
        /\ \A k \in 1..n : IsYmText(out.data[k].Month.v)
        /\ {ReadYm(out.data[k].Month.v) : k \in 1..n} = months
        /\ \A k \in 1..(n - 1) :
              MonthNo(ReadYm(out.data[k].Month.v)) < MonthNo(ReadYm(out.data[k + 1].Month.v))
        /\ \A k \in 1..n :
              LET rows == InMonth(f, ReadYm(out.data[k].Month.v))
              IN  /\ out.data[k].Total = Val(SumSet(rows, Amount0(f, person)))
                  /\ out.data[k].Transactions =
                        Val(Cardinality({i \in rows : ~IsNa(f.data[i][person])}))

\* Average * Transactions = Total, for a finite Average.
IsMeanOf(average, transactions, total) ==
    /\ ~IsNa(average)
    /\ average.v.den > 0
    /\ average.v.num * transactions.v = total.v * average.v.den

\* C5 as stated: one row per month present, in chronological order, with
\* Total the sum, Transactions the number of rows with a present amount and
\* Average * Transactions = Total in every row.
C5_AverageTimesTransactionsIsTotal ==
    result.op = "process_monthly_data" =>
        /\ MonthlyRowsTotalsCounts(df, result.person, result.out)
        /\ \A k \in 1..Len(result.out.data) :
              IsMeanOf(result.out.data[k].Average, result.out.data[k].Transactions,
                       result.out.data[k].Total)

\* C5, amended: one row per month present, in chronological order, with
\* Total the sum and Transactions the number of rows with a present amount;
\* Average * Transactions = Total in every row with Transactions > 0, and in
\* a month none of whose rows has an amount Transactions = 0, Total = 0 and
\* Average is missing.
C5_MonthlyRowsSumsCountsMeans ==
    result.op = "process_monthly_data" =>
        /\ MonthlyRowsTotalsCounts(df, result.person, result.out)
        /\ \A k \in 1..Len(result.out.data) :
              LET r == result.out.data[k]
              IN  IF r.Transactions.v > 0
                  THEN IsMeanOf(r.Average, r.Transactions, r.Total)
                  ELSE IsNa(r.Average) /\ r.Total = Val(0)

\* A monthly aggregation over two months given out of order, the later one
\* with two transactions whose mean is not a whole number.
C5_Witness ==
    /\ result.op = "process_monthly_data"
    /\ Len(result.out.data) = 2
    /\ ~IsNa(df.data[1]["Date"])
    /\ DateOf(df, 1) = T3
    /\ result.out.data[1].Month.v = StrfYm(T1)
    /\ result.out.data[2].Transactions = Val(2)
    /\ result.out.data[2].Total = Val(7)
    /\ result.out.data[2].Average = Val([num |-> 7, den |-> 2])

-----------------------------------------------------------------------------
(* C6                                                                      *)

\* C6: the month-over-month delta is shift-based.  In the first row
\* Previous_Month_Total and Change are missing and Change_Percentage is 0; in
\* a later row Previous_Month_Total is the Total of the preceding month that
\* has data, Change is the difference of the two totals and Change_Percentage
\* is Change / previous * 100: finite when the previous total is not zero,
\* and 0 when the previous total and Change are both 0.
C6_ShiftBasedDelta ==
    result.op = "process_monthly_data" =>
        LET out    == result.out
            n      == Len(out.data)
            months == {YmOf(DateOf(df, i)) : i \in Dated(df)}
            total(ym) == SumSet(InMonth(df, ym), Amount0(df, result.person))
        IN  \A k \in 1..n :
                LET r    == out.data[k]
                    ym   == ReadYm(r.Month.v)
                    earlier == {m \in months : MonthNo(m) < MonthNo(ym)}
                IN  IF earlier = {}
                    THEN /\ k = 1
                         /\ IsNa(r.Previous_Month_Total)
                         /\ IsNa(r.Change)
                         /\ r.Change_Percentage = Zero
                    ELSE LET pm == CHOOSE m \in earlier :
                                      \A m2 \in earlier : MonthNo(m2) <= MonthNo(m)
                             prev   == total(pm)
                             change == total(ym) - prev
                         IN  /\ k > 1
                             /\ r.Previous_Month_Total = Val(prev)
                             /\ r.Previous_Month_Total = out.data[k - 1].Total
                             /\ r.Change = Val(change)
                             /\ ~IsNa(r.Change_Percentage)
                             /\ prev # 0 =>
                                   /\ r.Change_Percentage.v.den > 0
                                   /\ r.Change_Percentage.v.num * prev
                                         = change * 100 * r.Change_Percentage.v.den
                             /\ (prev = 0 /\ change = 0) => r.Change_Percentage = Zero

\* A monthly aggregation over November 2023 and January 2024, with no
\* December row between them, whose total rose from 2 to 7.
C6_Witness ==
    /\ result.op = "process_monthly_data"
    /\ Len(result.out.data) = 2
    /\ result.out.data[1].Month.v = StrfYm(T1)
    /\ result.out.data[2].Month.v = StrfYm(T2)
    /\ result.out.data[2].Previous_Month_Total = Val(2)
    /\ result.out.data[2].Change = Val(5)
    /\ result.out.data[2].Change_Percentage = Val([num |-> 250, den |-> 1])

-----------------------------------------------------------------------------
(* C8                                                                      *)

\* C8: the 'Total Expenses' metric is the same in both views: the sum of the
\* daily totals equals the sum of the monthly totals, and both equal the sum
\* of the selected person's amounts over the loaded rows with a valid Date.
C8_TotalExpensesSameInBothViews ==
    result.op \in {"process_daily_data", "process_monthly_data"} =>
        LET direct == SumSet(Dated(df), Amount0(df, result.person))
        IN  /\ total_expenses(result.out) = direct
            /\ total_expenses(process_daily_data(df, result.person)) = direct
            /\ total_expenses(process_monthly_data(df, result.person)) = direct

\* A monthly aggregation of a frame with a row without a Date, whose amount
\* is in neither total, and dated rows in two months.
C8_Witness ==
    /\ result.op = "process_monthly_data"
    /\ result.person = PersonA
    /\ \E i \in Pos(df) : IsNa(df.data[i]["Date"]) /\ df.data[i][PersonA] = Val(5)
    /\ Len(result.out.data) = 2
    /\ total_expenses(result.out) = 4

-----------------------------------------------------------------------------
(* C1                                                                      *)

\* C1: once load_data has returned the record set, no later operation of a
\* render changes it: its rows, its columns and its cells are the same after
\* process_daily_data, process_monthly_data and get_category_data as before.
C1_LoadedFrameNeverChanges == [][df' = df]_vars

-----------------------------------------------------------------------------
(* C9                                                                      *)

\* Empty or only whitespace.
IsBlank(text) == \A i \in 1..Len(text) : text[i] \in {32, 9, 10, 13}

\* The rows of the frame in the period a breakdown was asked for.
PeriodRows(f, selected_date, is_monthly) ==
    IF is_monthly
    THEN {i \in Dated(f) : YmOf(DateOf(f, i)) = ReadYm(selected_date.v)}
    ELSE {i \in Dated(f) : DateOf(f, i) = selected_date.v}

\* The Total a date aggregation reports for the period, if it reports one.
ReportedTotals(f, person, selected_date, is_monthly) ==
    IF is_monthly
    THEN LET m == process_monthly_data(f, person)
         IN  {m.data[k].Total : k \in {j \in 1..Len(m.data) : m.data[j].Month = selected_date}}
    ELSE LET d == process_daily_data(f, person)
         IN  {d.data[k].Total : k \in {j \in 1..Len(d.data) : d.data[j].Date = selected_date}}

-----------------------------------------------------------------------------
(* C2                                                                      *)

\* C2: in every view, whenever the category breakdown computed for the
\* selected date or month is empty, the page shows the informational
\* message and neither the category pie chart nor the details table.
C2_EmptyBreakdownShowsInfo ==
    (shown.kind \in {"daily", "monthly"} /\ Len(shown.category_data.data) = 0)
        => shown.breakdown = <<"info">>

-----------------------------------------------------------------------------
(* C7                                                                      *)

\* What the first run of a new session shows.
FirstRender(file, person, view, picked) ==
    rerun([df |-> NoFrame, shown |-> NoRender], file, person, view, picked).shown

-----------------------------------------------------------------------------
(* C10                                                                     *)

\* The months of the retained rows of a file, and the latest of them.
MonthsOf(f) == {YmOf(DateOf(f, i)) : i \in Dated(f)}

LatestMonth(f) == CHOOSE m \in MonthsOf(f) : \A m2 \in MonthsOf(f) : MonthNo(m2) <= MonthNo(m)

Retained(file) == {i \in 1..Len(file) : ~HasPaid(file[i]["Description"])}

\* What the Monthly Summary page shows of the months of frame f.
MonthSelectorAndLastChange(f) ==
    LET monthly_data == process_monthly_data(f, selected_person)
        n == Len(monthly_data.data)
    IN  /\ shown.kind = "monthly"
        /\ shown.options = [k \in 1..n |-> monthly_data.data[k].Month.v]
        /\ {ReadYm(shown.options[k]) : k \in 1..Len(shown.options)} = MonthsOf(f)
        /\ IsNa(selection) => ReadYm(shown.selected.v) = LatestMonth(f)
        /\ \E i \in Dated(f) : YmOf(DateOf(f, i)) = ReadYm(shown.selected.v)
        /\ \E k \in 1..n :
              /\ ReadYm(monthly_data.data[k].Month.v) = LatestMonth(f)
              /\ shown.last_month_change = monthly_data.data[k].Change_Percentage
        /\ Cardinality(MonthsOf(f)) = 1 => shown.last_month_change = Zero

\* C10 as stated: in the Monthly Summary view of a file with at least one
\* retained row, the month selector offers exactly the months of
\* process_monthly_data and defaults to the latest, the selected month
\* matches a loaded row, and 'Last Month Change' is the Change_Percentage of
\* the latest month, 0 when there is one month only.
C10_AnyRetainedRow ==
    (~IsNa(uploaded_file) /\ view_mode = MONTHLY /\ Retained(uploaded_file.v) # {})
        => MonthSelectorAndLastChange(load_data(uploaded_file.v))

\* C10, amended: the same, for a file with at least one retained row that
\* has a valid Date.
C10_AnyRetainedDatedRow ==
    (~IsNa(uploaded_file) /\ view_mode = MONTHLY
        /\ \E i \in Retained(uploaded_file.v) : ~IsNa(uploaded_file.v[i]["Date"]))
        => MonthSelectorAndLastChange(load_data(uploaded_file.v))

\* The Monthly Summary page of a file with rows in two months, at its
\* default month, the later one, whose total changed by 200 percent.
C10_Witness ==
    /\ shown.kind = "monthly"
    /\ IsNa(selection)
    /\ Len(shown.options) = 2
    /\ shown.selected = Val(StrfYm(T2))
    /\ shown.last_month_change = Val([num |-> 200, den |-> 1])

====
